---- MODULE Spec2Model ----
(***************************************************************************)
(* Model of the todo backend (src/backend/main.go): the startup connector  *)
(* connectToDatabase, the todo handlers that write the gorm table or read  *)
(* one row of it (create, get, update, delete; GET /todos writes nothing   *)
(* and is left out), and the four file handlers over the upload directory. *)
(*                                                                         *)
(* Requests are served by goroutines of their own, so a handler is one     *)
(* step per call that reads or writes shared state (the table, the clock,  *)
(* the upload directory), and the steps of different requests interleave:  *)
(* createTodo is the clock reading the ORM takes in the server, the INSERT  *)
(* that draws the ID, and the commit that makes the row visible; updateTodo *)
(* is the ORM's clock reading, its UPDATE and its second read; uploadFile   *)
(* is the clock reading, os.Create, one write per block and the answer;    *)
(* downloadFile is os.Open and one read per block.                         *)
(*                                                                         *)
(* Strings that the code only stores and compares are kept as TLA+         *)
(* strings; strings the code builds or takes apart (uuids, file names) are *)
(* sequences of one-character strings, so that "" is <<>>. A file's        *)
(* content is the sequence of its blocks, a block being what one read or   *)
(* write call of io.Copy moves.                                            *)
(***************************************************************************)
EXTENDS Integers, Sequences, FiniteSets, Bags, TLC

VARIABLES
    pc,        \* position of main: "open", "failed", "sleep", "fatal", "exited", "serving"
    attempt,   \* the loop variable of connectToDatabase
    readyAt,   \* environment: the second, counted from the process start, from
               \* which the store is reachable (Never: it never is)
    elapsed,   \* seconds since the process start
    remaining, \* seconds left of the running time.Sleep
    db,        \* the global handle: "nil" until connectToDatabase returns one
    trace,     \* what the connector did so far, in order (opens, sleeps, fatal)
    table,     \* the todos table: the set of its rows, soft-deleted ones kept
    seq,       \* the last value drawn from the sequence of the table's ID column
    creating,  \* the bag of creates being served: the Todo and where the request is
    pending,   \* the bag of updates being served: the uuid of the path, the body,
               \* the clock reading and where the request is
    gone,      \* history: uuids whose delete removed a row and answered 204
    resp,      \* the last response of a todo handler
    now,       \* the reading time.Now() gives at this moment
    dir,       \* the upload directory: name -> entry
    inodes,    \* the files of the volume: inode -> content
    ups,       \* the bag of uploads being served
    downs,     \* the bag of downloads being served
    uploaded,  \* history: the names the uploads created their files under, in order
    removed,   \* history: the names a delete removed and answered 200 for
    fresp      \* the last response of a file handler

vars == <<pc, attempt, readyAt, elapsed, remaining, db, trace, table, seq, creating, pending,
          gone, resp, now, dir, inodes, ups, downs, uploaded, removed, fresp>>
connVars == <<pc, attempt, readyAt, elapsed, remaining, db, trace>>
todoVars == <<table, seq, creating, pending, gone, resp>>
fsVars == <<dir, inodes, ups, downs, uploaded, removed>>
fileVars == <<now, dir, inodes, ups, downs, uploaded, removed, fresp>>

(***************************************************************************)
(* Bounds of the model.                                                    *)
(***************************************************************************)
MaxReadyTime == 21 \* latest second at which the store becomes reachable
NumUUIDs == 2      \* values uuid.New() may draw
MaxSeq == 2        \* values drawn from the sequence of the ID column
MaxInflight == 1   \* creates, and updates, served at the same time
MaxClock == 2      \* readings the clock goes through
MaxUploads == 2    \* uploads served
MaxReaders == 1    \* downloads served at the same time

(***************************************************************************)
(* Startup connector                                                       *)
(***************************************************************************)
maxRetries == 5
Never == -1

\* gorm.Open: err == nil iff the store is reachable at the time of the call
gormOpenOk == readyAt # Never /\ readyAt <= elapsed

LoopCond_offByOne(a) == a < maxRetries
\* the loop condition attempt <= maxRetries
LoopCond(a) == a <= maxRetries

\* time.Duration(attempt*2) * time.Second, in seconds
BackoffSeconds(a) == a * 2

AfterOpen_noReturn(ok) == "failed"
\* where the loop body goes after gorm.Open: return on success, else log and sleep
AfterOpen(ok) == IF ok THEN "serving" ELSE "failed"

OpenEvent(n, ok) == [e |-> "open", n |-> n, ok |-> ok, secs |-> 0]
SleepEvent(n, s) == [e |-> "sleep", n |-> n, ok |-> FALSE, secs |-> s]
FatalEvent == [e |-> "fatal", n |-> 0, ok |-> FALSE, secs |-> 0]

\* lines 34-46: open, and return the handle on success (main then migrates,
\* makes the upload directory and serves)
connectAttempt ==
    /\ pc = "open"
    /\ LET to == AfterOpen(gormOpenOk)
       IN /\ trace' = Append(trace, OpenEvent(attempt, gormOpenOk))
          /\ pc' = to
          /\ db' = IF to = "serving" THEN "handle" ELSE db
    /\ UNCHANGED <<attempt, readyAt, elapsed, remaining, todoVars, fileVars>>

\* lines 48-49: log the failure and start time.Sleep
connectBackoff ==
    /\ pc = "failed"
    /\ trace' = Append(trace, SleepEvent(attempt, BackoffSeconds(attempt)))
    /\ remaining' = BackoffSeconds(attempt)
    /\ pc' = "sleep"
    /\ UNCHANGED <<attempt, readyAt, db, elapsed, todoVars, fileVars>>

\* a second of time.Sleep passes
sleepSecond ==
    /\ pc = "sleep"
    /\ remaining > 0
    /\ remaining' = remaining - 1
    /\ elapsed' = elapsed + 1
    /\ UNCHANGED <<pc, attempt, readyAt, db, trace, todoVars, fileVars>>

\* time.Sleep returns: attempt++ and the loop condition
connectWake ==
    /\ pc = "sleep"
    /\ remaining = 0
    /\ attempt' = attempt + 1
    /\ pc' = IF LoopCond(attempt + 1) THEN "open" ELSE "fatal"
    /\ UNCHANGED <<readyAt, db, trace, elapsed, remaining, todoVars, fileVars>>

\* line 52: log.Fatal ends the process
connectFatal ==
    /\ pc = "fatal"
    /\ trace' = Append(trace, FatalEvent)
    /\ pc' = "exited"
    /\ UNCHANGED <<attempt, readyAt, db, elapsed, remaining, todoVars, fileVars>>

IsOpen(ev) == ev.e = "open"
IsSleep(ev) == ev.e = "sleep"
\* the attempts made, and the waits performed, in order
Opens == SelectSeq(trace, IsOpen)
Waits == [i \in 1..Len(SelectSeq(trace, IsSleep)) |-> SelectSeq(trace, IsSleep)[i].secs]

(***************************************************************************)
(* Todos                                                                   *)
(***************************************************************************)
EmptyString == <<>>
\* the values uuid.New().String() may draw, and a value a client made up
UUIDs == {<<i>> : i \in 1..NumUUIDs}
ClientUUID == <<0>>

\* the zero value of Todo. Of the embedded gorm.Model it has the ID, CreatedAt
\* and UpdatedAt and, as deleted, the Valid flag of DeletedAt (a NULL
\* deleted_at is not valid). A time is the reading of the clock at which it
\* was taken, 0 being the zero time
ZeroTodo == [id |-> 0, created_at |-> 0, updated_at |-> 0, uuid |-> EmptyString,
             title |-> "", description |-> "", completed |-> FALSE,
             file_path |-> "", deleted |-> FALSE]

\* request bodies: a JSON object is the function from its keys to their values.
\* The fields of gorm.Model carry no json tag, so their keys are their names;
\* the value of CreatedAt and UpdatedAt is the time the JSON string denotes
BadBody == [malformed |-> TRUE]
CreateBodies == { BadBody,
                  [uuid |-> ClientUUID, title |-> "Buy milk", description |-> "2%"],
                  [ID |-> 2, CreatedAt |-> 1, UpdatedAt |-> 1, title |-> "Buy milk",
                   description |-> "2%"],
                  [DeletedAt |-> "2024-01-01T00:00:00Z", title |-> "Buy milk",
                   description |-> "2%"] }
UpdateBodies == { BadBody,
                  [title |-> "x", uuid |-> ClientUUID, file_path |-> "g"],
                  [completed |-> TRUE, title |-> "x", description |-> "y",
                   uuid |-> ClientUUID, file_path |-> "g", ID |-> 3,
                   CreatedAt |-> 1, UpdatedAt |-> 1,
                   DeletedAt |-> "2024-01-01T00:00:00Z"] }

JsonOk(b) == "malformed" \notin DOMAIN b
Field(b, f, zero) == IF f \in DOMAIN b THEN b[f] ELSE zero

\* json.NewDecoder(r.Body).Decode(&todo) into a zero Todo: the tagged fields
\* and the promoted fields of gorm.Model (a DeletedAt that is not null decodes
\* to a valid time)
Decode(b) == [id |-> Field(b, "ID", 0),
              created_at |-> Field(b, "CreatedAt", 0),
              updated_at |-> Field(b, "UpdatedAt", 0),
              uuid |-> Field(b, "uuid", EmptyString),
              title |-> Field(b, "title", ""),
              description |-> Field(b, "description", ""),
              completed |-> Field(b, "completed", FALSE),
              file_path |-> Field(b, "file_path", ""),
              deleted |-> Field(b, "DeletedAt", "null") # "null"]

NewTodo_keepsBodyUUID(b, u) == Decode(b)
\* lines 103-111: the decoded body with a generated uuid
NewTodo(b, u) == [Decode(b) EXCEPT !.uuid = u]

\* the rows the soft-delete scope of gorm.Model lets a query see
Live(tbl) == {r \in tbl : ~r.deleted}
Matching(tbl, u) == {r \in Live(tbl) : r.uuid = u}

UniqueViolation_liveOnly(tbl, u) == \E r \in Live(tbl) : r.uuid = u
\* gorm:"unique": the index covers every row of the table, soft-deleted or not
UniqueViolation(tbl, u) == \E r \in tbl : r.uuid = u

\* the primary key of gorm.Model: no two rows of the table share an ID
PrimaryKeyViolation(tbl, id) == \E r \in tbl : r.id = id

\* db.Create, in the server before the INSERT is sent: a CreatedAt or UpdatedAt
\* that is the zero time takes the reading of the clock
Stamped(todo, t) ==
    [todo EXCEPT !.created_at = IF @ = 0 THEN t ELSE @,
                 !.updated_at = IF @ = 0 THEN t ELSE @]

\* the INSERT's row: an ID of 0 takes the next value of the table's sequence
UsesSequence(todo) == todo.id = 0
CreatedRow(todo, nextval) ==
    [todo EXCEPT !.id = IF UsesSequence(todo) THEN nextval ELSE @]

\* db.Where("uuid = ?", uuid).First(&todo): the live row of least id, or an error
First(tbl, u) ==
    IF Matching(tbl, u) = {} THEN [err |-> TRUE, todo |-> ZeroTodo]
    ELSE [err |-> FALSE,
          todo |-> CHOOSE r \in Matching(tbl, u) :
                       \A q \in Matching(tbl, u) : r.id <= q.id]

ApplyUpdates_wholeBody(row, upd, t) ==
    [row EXCEPT !.completed = upd.completed, !.updated_at = t,
                !.title = upd.title, !.description = upd.description]
\* Updates(map{"completed": updatedTodo.Completed}) on one row: the column of
\* the map, and updated_at, which the ORM sets on every update of a model that
\* has the field, to the clock reading t it took before it sent the statement
ApplyUpdates(row, upd, t) == [row EXCEPT !.completed = upd.completed, !.updated_at = t]

\* the soft delete of gorm.Model: deleted_at alone is set, the row stays
SoftDelete(row) == [row EXCEPT !.deleted = TRUE]

\* a response: the operation that answers, the status and the Todo of the JSON
\* body (the zero Todo when the body is none or an error text). With the
\* answer of a get and the 200 of an update goes the uuid of the path of the
\* request it answers
Response(op, status, todo) ==
    [op |-> op, status |-> status, todo |-> todo, uuid |-> EmptyString]

\* a request being served, as it is kept in a bag
One(x) == SetToBag({x})

\* the creates that will draw from the sequence and have not yet
Drawing(cr) == [c \in {x \in BagToSet(cr) : x.pc = "insert" /\ UsesSequence(x.todo)} |-> cr[c]]

\* POST /todos, lines 103-113 up to the INSERT: decode, uuid.New() (u is what it
\* draws), and db.Create's reading of the clock for the times of the row
createTodo(b, u) ==
    /\ pc = "serving"
    /\ IF ~JsonOk(b)
       THEN /\ resp' = Response("create", 400, ZeroTodo)
            /\ UNCHANGED creating
       ELSE LET todo == Stamped(NewTodo(b, u), now)
            IN /\ BagCardinality(creating) < MaxInflight
               /\ UsesSequence(todo) => seq + BagCardinality(Drawing(creating)) < MaxSeq
               /\ creating' = creating (+) One([todo |-> todo, pc |-> "insert"])
               /\ UNCHANGED resp
    /\ UNCHANGED <<table, seq, pending, gone, connVars, fileVars>>

\* line 113, the INSERT reaches the store (dbErr: it does not, lines 114-117):
\* a row without ID draws the next value of the sequence, which is spent
\* whether or not the row is stored in the end
createInsert(c, dbErr) ==
    /\ pc = "serving"
    /\ BagIn(c, creating) /\ c.pc = "insert"
    /\ IF dbErr
       THEN /\ creating' = creating (-) One(c)
            /\ resp' = Response("create", 500, ZeroTodo)
            /\ UNCHANGED seq
       ELSE /\ seq' = IF UsesSequence(c.todo) THEN seq + 1 ELSE seq
            /\ creating' = (creating (-) One(c))
                               (+) One([todo |-> CreatedRow(c.todo, seq + 1), pc |-> "commit"])
            /\ UNCHANGED resp
    /\ UNCHANGED <<table, pending, gone, connVars, fileVars>>

\* lines 113-121, the INSERT ends: it is refused by the primary key or the
\* unique index (an INSERT that meets a row not yet committed waits for it), or
\* it commits, the row becomes visible and is answered
createCommit(c) ==
    /\ pc = "serving"
    /\ BagIn(c, creating) /\ c.pc = "commit"
    /\ creating' = creating (-) One(c)
    /\ IF PrimaryKeyViolation(table, c.todo.id) \/ UniqueViolation(table, c.todo.uuid)
       THEN /\ resp' = Response("create", 500, ZeroTodo)
            /\ UNCHANGED table
       ELSE /\ table' = table \cup {c.todo}
            /\ resp' = Response("create", 201, c.todo)
    /\ UNCHANGED <<seq, pending, gone, connVars, fileVars>>

\* what GET /todos/{uuid} answers on a given table
GetTodoResponse(tbl, u, dbErr) ==
    LET r == First(tbl, u)
    IN IF dbErr \/ r.err THEN Response("get", 404, ZeroTodo)
       ELSE Response("get", 200, r.todo)

\* GET /todos/{uuid}
getTodo(u, dbErr) ==
    /\ pc = "serving"
    /\ resp' = [GetTodoResponse(table, u, dbErr) EXCEPT !.uuid = u]
    /\ UNCHANGED <<table, seq, creating, pending, gone, connVars, fileVars>>

\* an update that has sent its UPDATE: of what the request held, the second
\* read uses the uuid of the path alone
NoBody == [none |-> TRUE]
Reading(u) == [uuid |-> u, body |-> NoBody, t |-> 0, pc |-> "read"]

\* PUT /todos/{uuid}, lines 152-162 up to the UPDATE: the body is decoded, and
\* Updates reads the clock for updated_at
updateTodo(u, b) ==
    /\ pc = "serving"
    /\ IF ~JsonOk(b)
       THEN /\ resp' = Response("update", 400, ZeroTodo)
            /\ UNCHANGED pending
       ELSE /\ BagCardinality(pending) < MaxInflight
            /\ pending' = pending (+) One([uuid |-> u, body |-> b, t |-> now,
                                           pc |-> "update"])
            /\ UNCHANGED resp
    /\ UNCHANGED <<table, seq, creating, gone, connVars, fileVars>>

\* lines 162-168: the UPDATE statement runs in the store
updateTodoWrite(p, dbErr) ==
    /\ pc = "serving"
    /\ BagIn(p, pending) /\ p.pc = "update"
    /\ IF dbErr
       THEN /\ pending' = pending (-) One(p)
            /\ resp' = Response("update", 500, ZeroTodo)
            /\ UNCHANGED table
       ELSE /\ table' = {IF r \in Matching(table, p.uuid)
                         THEN ApplyUpdates(r, Decode(p.body), p.t) ELSE r : r \in table}
            /\ pending' = (pending (-) One(p)) (+) One(Reading(p.uuid))
            /\ UNCHANGED resp
    /\ UNCHANGED <<seq, creating, gone, connVars, fileVars>>

\* lines 170-173: the second read, its error ignored
updateTodoRead(p, dbErr) ==
    /\ pc = "serving"
    /\ BagIn(p, pending) /\ p.pc = "read"
    /\ LET r == First(table, p.uuid)
           todo == IF dbErr THEN ZeroTodo ELSE r.todo
       IN resp' = [Response("update", 200, todo) EXCEPT !.uuid = p.uuid]
    /\ pending' = pending (-) One(p)
    /\ UNCHANGED <<table, seq, creating, gone, connVars, fileVars>>

\* DELETE /todos/{uuid}
deleteTodo(u, dbErr) ==
    /\ pc = "serving"
    /\ IF dbErr
       THEN /\ resp' = Response("delete", 500, ZeroTodo)
            /\ UNCHANGED <<table, gone>>
       ELSE /\ table' = {IF r \in Matching(table, u)
                         THEN SoftDelete(r) ELSE r : r \in table}
            /\ gone' = IF Matching(table, u) # {} THEN gone \cup {u} ELSE gone
            /\ resp' = Response("delete", 204, ZeroTodo)
    /\ UNCHANGED <<seq, creating, pending, connVars, fileVars>>

(***************************************************************************)
(* Files                                                                   *)
(***************************************************************************)
\* the characters of the model's file names, in byte order
Alphabet == <<"-", ".", "/", "0", "1", "2", "3", "4", "5", "6", "7", "8", "9",
              "a", "b", "d", "l", "o", "p", "s", "u">>
Rank(c) == CHOOSE i \in 1..Len(Alphabet) : Alphabet[i] = c

RECURSIVE StrLess(_, _)
\* s < t as Go compares strings
StrLess(s, t) ==
    IF t = <<>> THEN FALSE
    ELSE IF s = <<>> THEN TRUE
    ELSE IF Head(s) # Head(t) THEN Rank(Head(s)) < Rank(Head(t))
    ELSE StrLess(Tail(s), Tail(t))

RECURSIVE StripTrailingSlashes(_)
StripTrailingSlashes(s) ==
    IF s # <<>> /\ s[Len(s)] = "/" THEN StripTrailingSlashes(SubSeq(s, 1, Len(s) - 1))
    ELSE s

RECURSIVE AfterLastSlash(_)
AfterLastSlash(s) ==
    IF \E i \in 1..Len(s) : s[i] = "/" THEN AfterLastSlash(Tail(s)) ELSE s

\* filepath.Base
Base(path) ==
    IF path = <<>> THEN <<".">>
    ELSE LET t == AfterLastSlash(StripTrailingSlashes(path))
         IN IF t = <<>> THEN <<"/">> ELSE t

RECURSIVE Itoa(_)
\* %d of a non-negative integer
Itoa(n) == IF n < 10 THEN <<Alphabet[n + 4]>> ELSE Itoa(n \div 10) \o <<Alphabet[(n % 10) + 4]>>

\* fmt.Sprintf("%d-%s", time.Now().UnixNano(), filepath.Base(header.Filename))
StoredName(ts, filename) == Itoa(ts) \o <<"-">> \o Base(filename)

UploadDir == <<"/", "a", "p", "p", "/", "u", "p", "l", "o", "a", "d", "s">>
\* filepath.Join(uploadDir, name) for a name without separators
Join(d, name) == d \o <<"/">> \o name

\* what clients send: file names, file contents, and names to download or delete
FileNames == {<<"a">>, <<"d", "/", "a">>}
Contents == {<<1>>, <<2, 2>>}
SubDir == <<"s", "u", "b">>
RequestNames == {StoredName(t, f) : t \in 1..MaxClock, f \in FileNames} \cup {SubDir}

\* a directory entry: a file's name is a link to its inode
FileEntry(ino) == [isDir |-> FALSE, empty |-> FALSE, ino |-> ino]
DirEntry(empty) == [isDir |-> TRUE, empty |-> empty, ino |-> 0]

\* the directory with one entry written (created or replaced), or removed
WithEntry(d, name, entry) ==
    [n \in DOMAIN d \cup {name} |-> IF n = name THEN entry ELSE d[n]]
WithoutEntry(d, name) == [n \in DOMAIN d \ {name} |-> d[n]]

RECURSIVE SortNames(_)
SortNames(S) ==
    IF S = {} THEN <<>>
    ELSE LET m == CHOOSE x \in S : \A y \in S \ {x} : StrLess(x, y)
         IN <<m>> \o SortNames(S \ {m})

\* os.ReadDir: the entries' names, sorted by name
ReadDir(d) == SortNames(DOMAIN d)

\* a []string: nil until something is appended to it
NilSlice == [nil |-> TRUE, items |-> <<>>]
AppendSlice(s, x) == [nil |-> FALSE, items |-> Append(s.items, x)]

\* the filter !file.IsDir()
Listed(entry) == ~entry.isDir

RECURSIVE CollectNames(_, _, _, _)
\* the loop of lines 226-230 from entry i on, fileNames being acc so far
CollectNames(d, names, i, acc) ==
    IF i > Len(names) THEN acc
    ELSE CollectNames(d, names, i + 1,
                      IF Listed(d[names[i]]) THEN AppendSlice(acc, names[i]) ELSE acc)

\* json.NewEncoder(w).Encode(fileNames): a nil slice encodes as null
EncodeStrings(s) ==
    IF s.nil THEN [kind |-> "null", items |-> <<>>]
    ELSE [kind |-> "array", items |-> s.items]

NoJson == [kind |-> "none", items |-> <<>>]

\* a response: the operation that answers, the status and the body (the path,
\* the JSON list, or the file's bytes). With the 201 of an upload go the
\* filename and the bytes the request held, with the 200 of a delete the name
\* of its path
FileResponse(op, status, name, path, names, data) ==
    [op |-> op, status |-> status, name |-> name, sent |-> <<>>,
     file_path |-> path, names |-> names, data |-> data]

NoFileResponse == FileResponse("none", 0, <<>>, <<>>, NoJson, <<>>)

\* the file system frees an inode when no name and no open descriptor holds it
HeldInodes(d, us, ds) ==
    {d[n].ino : n \in {m \in DOMAIN d : ~d[m].isDir}}
        \cup {u.ino : u \in {x \in BagToSet(us) : x.pc = "copy"}}
        \cup {x.ino : x \in BagToSet(ds)}
Release(ino, d, us, ds) == [i \in DOMAIN ino \cap HeldInodes(d, us, ds) |-> ino[i]]

\* the number of a new inode
NewInode(ino) == CHOOSE i \in 1..(Cardinality(DOMAIN ino) + 1) : i \notin DOMAIN ino

\* a write of one block at a descriptor's offset: past the end of a file that
\* was truncated in the meantime, the gap reads as zero blocks
Zeros(n) == [i \in 1..n |-> 0]
WriteAt(data, off, block) ==
    IF off < Len(data) THEN [data EXCEPT ![off + 1] = block]
    ELSE data \o Zeros(off - Len(data)) \o <<block>>

\* the uploads that have read the clock and not yet called os.Create
Naming(us) == [u \in {x \in BagToSet(us) : x.pc = "create"} |-> us[u]]

OneOf(x) == SetToBag({x})

\* POST /files/upload, lines 190-198: the form file, and the name from the
\* clock reading and the base of the client's filename
uploadFile(filename, data, formErr) ==
    /\ pc = "serving"
    /\ Len(uploaded) + BagCardinality(Naming(ups)) < MaxUploads
    /\ IF formErr
       THEN /\ fresp' = FileResponse("upload", 400, <<>>, <<>>, NoJson, <<>>)
            /\ UNCHANGED ups
       ELSE /\ ups' = ups (+) OneOf([filename |-> filename, data |-> data,
                                     name |-> StoredName(now, filename),
                                     pc |-> "create", ino |-> 0, off |-> 0])
            /\ UNCHANGED fresp
    /\ UNCHANGED <<now, dir, inodes, downs, uploaded, removed, connVars, todoVars>>

\* lines 199-203, os.Create: a new empty file, or the existing file of that
\* name truncated (a directory of that name cannot be opened for writing)
uploadCreate(u, err) ==
    /\ pc = "serving"
    /\ BagIn(u, ups) /\ u.pc = "create"
    /\ IF err \/ (u.name \in DOMAIN dir /\ dir[u.name].isDir)
       THEN /\ ups' = ups (-) OneOf(u)
            /\ fresp' = FileResponse("upload", 500, <<>>, <<>>, NoJson, <<>>)
            /\ UNCHANGED <<dir, inodes, uploaded>>
       ELSE LET i == IF u.name \in DOMAIN dir THEN dir[u.name].ino ELSE NewInode(inodes)
            IN /\ dir' = WithEntry(dir, u.name, FileEntry(i))
               /\ inodes' = [j \in DOMAIN inodes \cup {i} |-> IF j = i THEN <<>> ELSE inodes[j]]
               /\ ups' = (ups (-) OneOf(u)) (+) OneOf([u EXCEPT !.pc = "copy", !.ino = i])
               /\ uploaded' = Append(uploaded, u.name)
               /\ UNCHANGED fresp
    /\ UNCHANGED <<now, downs, removed, connVars, todoVars>>

\* line 206, io.Copy: one block is written at the descriptor's offset; a
\* failed write ends the request (lines 207-210), the file staying as it is
uploadCopy(u, err) ==
    /\ pc = "serving"
    /\ BagIn(u, ups) /\ u.pc = "copy" /\ u.off < Len(u.data)
    /\ IF err
       THEN /\ ups' = ups (-) OneOf(u)
            /\ inodes' = Release(inodes, dir, ups', downs)
            /\ fresp' = FileResponse("upload", 500, <<>>, <<>>, NoJson, <<>>)
       ELSE /\ inodes' = [inodes EXCEPT ![u.ino] = WriteAt(@, u.off, u.data[u.off + 1])]
            /\ ups' = (ups (-) OneOf(u)) (+) OneOf([u EXCEPT !.off = @ + 1])
            /\ UNCHANGED fresp
    /\ UNCHANGED <<now, dir, downs, uploaded, removed, connVars, todoVars>>

\* lines 212-214: io.Copy has written every block; the path is answered
uploadDone(u) ==
    /\ pc = "serving"
    /\ BagIn(u, ups) /\ u.pc = "copy" /\ u.off = Len(u.data)
    /\ ups' = ups (-) OneOf(u)
    /\ inodes' = Release(inodes, dir, ups', downs)
    /\ fresp' = [FileResponse("upload", 201, u.filename, Join(UploadDir, u.name),
                              NoJson, <<>>)
                    EXCEPT !.sent = u.data]
    /\ UNCHANGED <<now, dir, downs, uploaded, removed, connVars, todoVars>>

\* what GET /files/list answers on a given directory
ListFilesResponse(d, err) ==
    IF err THEN FileResponse("list", 500, <<>>, <<>>, NoJson, <<>>)
    ELSE FileResponse("list", 200, <<>>, <<>>,
                      EncodeStrings(CollectNames(d, ReadDir(d), 1, NilSlice)), <<>>)

\* GET /files/list
listFiles(err) ==
    /\ pc = "serving"
    /\ fresp' = ListFilesResponse(dir, err)
    /\ UNCHANGED <<now, fsVars, connVars, todoVars>>

\* GET /files/download/{filename}, lines 237-245, os.Open: it fails on a
\* missing name. A directory opens, its read fails whatever happens later, and
\* io.Copy's error is dropped: nothing is sent, the status is 200
downloadFile(name, err) ==
    /\ pc = "serving"
    /\ IF err \/ name \notin DOMAIN dir
       THEN /\ fresp' = FileResponse("download", 404, <<>>, <<>>, NoJson, <<>>)
            /\ UNCHANGED downs
       ELSE IF dir[name].isDir
       THEN /\ fresp' = FileResponse("download", 200, <<>>, <<>>, NoJson, <<>>)
            /\ UNCHANGED downs
       ELSE /\ BagCardinality(downs) < MaxReaders
            /\ downs' = downs (+) OneOf([name |-> name, ino |-> dir[name].ino,
                                         off |-> 0, got |-> <<>>])
            /\ UNCHANGED fresp
    /\ UNCHANGED <<now, dir, inodes, ups, uploaded, removed, connVars, todoVars>>

\* line 250, io.Copy: the next block of the open file is read and sent; at the
\* end of the file, or on a failed read (the error is dropped), the response
\* ends with what was sent
downloadCopy(d, err) ==
    /\ pc = "serving"
    /\ BagIn(d, downs)
    /\ IF err \/ d.off >= Len(inodes[d.ino])
       THEN /\ downs' = downs (-) OneOf(d)
            /\ inodes' = Release(inodes, dir, ups, downs')
            /\ fresp' = FileResponse("download", 200, <<>>, <<>>, NoJson, d.got)
       ELSE /\ downs' = (downs (-) OneOf(d))
                           (+) OneOf([d EXCEPT !.off = @ + 1,
                                               !.got = Append(@, inodes[d.ino][d.off + 1])])
            /\ UNCHANGED <<inodes, fresp>>
    /\ UNCHANGED <<now, dir, ups, uploaded, removed, connVars, todoVars>>

\* os.Remove fails on a missing name and on a directory that is not empty
RemoveFails(d, name) == name \notin DOMAIN d \/ (d[name].isDir /\ ~d[name].empty)

\* DELETE /files/{filename}: the name is unlinked; descriptors open on the
\* file keep it
deleteFile(name, err) ==
    /\ pc = "serving"
    /\ IF err \/ RemoveFails(dir, name)
       THEN /\ fresp' = FileResponse("delete", 500, <<>>, <<>>, NoJson, <<>>)
            /\ UNCHANGED <<dir, inodes, removed>>
       ELSE /\ dir' = WithoutEntry(dir, name)
            /\ inodes' = Release(inodes, dir', ups, downs)
            /\ removed' = removed \cup {name}
            /\ fresp' = FileResponse("delete", 200, name, <<>>, NoJson, <<>>)
    /\ UNCHANGED <<now, ups, downs, uploaded, connVars, todoVars>>

\* time passes: the next reading of the clock is later. Requests served
\* between two ticks read the same value
tick ==
    /\ pc = "serving"
    /\ now < MaxClock
    /\ now' = now + 1
    /\ UNCHANGED <<fsVars, fresp, connVars, todoVars>>

\* what a call of uuid.New() draws: a value drawn before (that of a row, or of
\* a create being served), or a new one. The new values are interchangeable
\* (nothing depends on which value a uuid is, and clients ask for every
\* value), so the first of them stands for all
Stored(tbl, cr) == {r.uuid : r \in tbl} \cup {c.todo.uuid : c \in BagToSet(cr)}
Drawable(tbl, cr) ==
    Stored(tbl, cr) \cup
        {u \in UUIDs \ Stored(tbl, cr) : \A v \in UUIDs \ Stored(tbl, cr) : u[1] <= v[1]}

NoResponse == Response("none", 0, ZeroTodo)

\* the process starts; the store becomes reachable at some second, or never
InitConn ==
    /\ pc = "open"
    /\ attempt = 1
    /\ readyAt \in {Never} \cup (0..MaxReadyTime)
    /\ elapsed = 0
    /\ remaining = 0
    /\ db = "nil"
    /\ trace = <<>>

\* main has connected at the first attempt and serves
InitServing ==
    /\ pc = "serving"
    /\ attempt = 1
    /\ readyAt = 0
    /\ elapsed = 0
    /\ remaining = 0
    /\ db = "handle"
    /\ trace = <<OpenEvent(1, TRUE)>>

\* AutoMigrate has made the table
InitTodos ==
    /\ table = {}
    /\ seq = 0
    /\ creating = EmptyBag
    /\ pending = EmptyBag
    /\ gone = {}
    /\ resp = NoResponse

\* os.MkdirAll leaves the volume as it finds it: here it holds an empty
\* sub-directory (a DELETE of it leaves the volume empty)
InitFiles ==
    /\ now = 1
    /\ dir = WithEntry(<<>>, SubDir, DirEntry(TRUE))
    /\ inodes = <<>>
    /\ ups = EmptyBag
    /\ downs = EmptyBag
    /\ uploaded = <<>>
    /\ removed = {}
    /\ fresp = NoFileResponse

InitStartup == InitConn /\ InitTodos /\ InitFiles
NextStartup ==
    \/ connectAttempt
    \/ connectBackoff
    \/ sleepSecond
    \/ connectWake
    \/ connectFatal

Init == InitServing /\ InitTodos /\ InitFiles
Next ==
    \/ \E b \in CreateBodies, u \in Drawable(table, creating) : createTodo(b, u)
    \/ \E c \in BagToSet(creating), e \in BOOLEAN : createInsert(c, e)
    \/ \E c \in BagToSet(creating) : createCommit(c)
    \/ \E u \in UUIDs, e \in BOOLEAN : getTodo(u, e)
    \/ \E u \in UUIDs, b \in UpdateBodies : updateTodo(u, b)
    \/ \E p \in BagToSet(pending), e \in BOOLEAN : updateTodoWrite(p, e)
    \/ \E p \in BagToSet(pending), e \in BOOLEAN : updateTodoRead(p, e)
    \/ \E u \in UUIDs, e \in BOOLEAN : deleteTodo(u, e)

InitClock == InitServing /\ InitTodos /\ InitFiles
NextClock ==
    \/ \E b \in CreateBodies, u \in Drawable(table, creating) : createTodo(b, u)
    \/ \E c \in BagToSet(creating), e \in BOOLEAN : createInsert(c, e)
    \/ \E c \in BagToSet(creating) : createCommit(c)
    \/ \E u \in UUIDs, b \in UpdateBodies : updateTodo(u, b)
    \/ \E p \in BagToSet(pending), e \in BOOLEAN : updateTodoWrite(p, e)
    \/ \E p \in BagToSet(pending), e \in BOOLEAN : updateTodoRead(p, e)
    \/ \E u \in UUIDs, e \in BOOLEAN : deleteTodo(u, e)
    \/ tick

InitF == InitServing /\ InitTodos /\ InitFiles
NextF ==
    \/ \E f \in FileNames, d \in Contents, e \in BOOLEAN : uploadFile(f, d, e)
    \/ \E u \in BagToSet(ups), e \in BOOLEAN : uploadCreate(u, e)
    \/ \E u \in BagToSet(ups), e \in BOOLEAN : uploadCopy(u, e)
    \/ \E u \in BagToSet(ups) : uploadDone(u)
    \/ \E e \in BOOLEAN : listFiles(e)
    \/ \E n \in RequestNames, e \in BOOLEAN : downloadFile(n, e)
    \/ \E d \in BagToSet(downs), e \in BOOLEAN : downloadCopy(d, e)
    \/ \E n \in RequestNames, e \in BOOLEAN : deleteFile(n, e)
    \/ tick

\* the process from its start to the connector's return or fatal exit
SpecStartup == InitStartup /\ [][NextStartup]_vars
\* the serving process: the todo handlers, served at one reading of the clock
\* (no handler reads a time of a row, so what the rows' times are decides
\* nothing but the times themselves)
Spec == Init /\ [][Next]_vars
\* the serving process: the todo handlers that write the table, the clock
\* advancing between their steps
SpecClock == InitClock /\ [][NextClock]_vars
\* the serving process: the file handlers
SpecFiles == InitF /\ [][NextF]_vars

(***************************************************************************)
(* Startup connector: claims                                               *)
(***************************************************************************)
SomeOpenSucceeded == \E i \in 1..Len(trace) : trace[i].e = "open" /\ trace[i].ok
AllOpensFailedInOrder ==
    \A i \in 1..Len(Opens) : Opens[i].n = i /\ ~Opens[i].ok

\* the second at which attempt k is made when the attempts before it failed
AttemptTime(k) == k * (k - 1)
\* the store is reachable at none of the attempts
NeverReachable == readyAt = Never \/ readyAt > AttemptTime(maxRetries)
\* the first attempt at which the store is reachable
FirstReachable == CHOOSE k \in 1..maxRetries :
                      /\ readyAt <= AttemptTime(k)
                      /\ \A j \in 1..(k - 1) : readyAt > AttemptTime(j)

\* C1: when the store is never reachable the connector makes exactly maxRetries
\* (5) attempts, numbered 1..5 and all failing, before the fatal exit, and it
\* can always take a step until it has exited; no run makes a 6th attempt; the
\* handle is returned only after a successful attempt.
C1_FiveAttemptsThenFatal ==
    /\ Len(Opens) <= maxRetries
    /\ (db = "handle" \/ pc = "serving") => SomeOpenSucceeded
    /\ NeverReachable =>
          /\ db = "nil" /\ pc # "serving"
          /\ AllOpensFailedInOrder
          /\ pc \in {"fatal", "exited"} => Len(Opens) = maxRetries
          /\ pc = "exited" => trace[Len(trace)] = FatalEvent
          /\ pc = "exited" \/ ENABLED NextStartup

C1_Witness == readyAt = Never /\ pc = "exited" /\ Len(Opens) = 5

\* C2: if the store first becomes reachable on attempt k (1..5), the connector
\* returns the handle right after attempt k: exactly k attempts are made, the
\* successful open is the last thing the connector does (no wait and no attempt
\* follows it), and the fatal path is never reached.
C2_ReturnsOnFirstSuccess ==
    ~NeverReachable =>
        /\ pc \notin {"fatal", "exited"}
        /\ Len(Opens) <= FirstReachable
        /\ \A i \in 1..Len(trace) :
              (trace[i].e = "open" /\ trace[i].ok) =>
                  /\ i = Len(trace)
                  /\ trace[i].n = FirstReachable
                  /\ pc = "serving" /\ db = "handle"
        /\ pc = "serving" =>
              /\ Len(Opens) = FirstReachable
              /\ trace[Len(trace)] = OpenEvent(FirstReachable, TRUE)
              /\ elapsed = AttemptTime(FirstReachable)

C2_Witness ==
    /\ readyAt = 5 /\ pc = "serving" /\ db = "handle"
    /\ Len(Opens) = 3 /\ Waits = <<2, 4>>

\* C3: the connector waits only between attempts: the i-th wait is 2*i seconds,
\* and a run in which all 5 attempts fail has performed exactly the waits
\* 2, 4, 6, 8 when it reaches the fatal exit (no wait after the 5th failure).
C3_WaitsOnlyBetweenAttempts ==
    /\ \A i \in 1..Len(Waits) : Waits[i] = 2 * i
    /\ pc \in {"fatal", "exited"} => Waits = <<2, 4, 6, 8>>

(***************************************************************************)
(* Todos: claims                                                           *)
(***************************************************************************)
\* two versions of a row that differ at most in completed: every other column
\* (id, created_at, updated_at, uuid, title, description, file_path and the
\* deletion mark) is the same
SameButCompleted(r1, r2) == [r1 EXCEPT !.completed = r2.completed] = r2

\* two versions of a row that differ at most in completed and updated_at
SameButCompletedAndUpdatedAt(r1, r2) ==
    [r1 EXCEPT !.completed = r2.completed, !.updated_at = r2.updated_at] = r2

\* a step in which an update request was answered
UpdateAnswered ==
    \/ \E u \in UUIDs : updateTodo(u, BadBody)
    \/ \E p \in BagToSet(pending) : updateTodoWrite(p, TRUE)
    \/ \E p \in BagToSet(pending), e \in BOOLEAN : updateTodoRead(p, e)

\* C4 as stated: an update changes nothing but the completed field of the live
\* todo with the requested uuid: whatever the body, no row is added or removed,
\* every row keeps every column but completed (its id, times, uuid, title,
\* description, file_path and deletion mark), rows of another uuid and deleted
\* rows are unchanged, and a refused update and the re-read write nothing;
\* after the UPDATE statement ran on an existing todo, a get by that uuid
\* answers 200 with the completed value that was sent (false when the body has
\* none).
C4_UpdateChangesOnlyCompleted ==
    [][ /\ pending' # pending =>
              \A p \in BagToSet(pending) :
                  updateTodoWrite(p, FALSE) =>
                      /\ Cardinality(table') = Cardinality(table)
                      /\ \A r \in table :
                            \E q \in table' :
                                /\ SameButCompleted(r, q)
                                /\ (r.uuid # p.uuid \/ r.deleted) => q = r
                      /\ Matching(table, p.uuid) # {} =>
                            /\ GetTodoResponse(table', p.uuid, FALSE).status = 200
                            /\ GetTodoResponse(table', p.uuid, FALSE).todo.completed
                                   = Field(p.body, "completed", FALSE)
        /\ (UpdateAnswered \/ \E u \in UUIDs, b \in UpdateBodies : updateTodo(u, b))
              => table' = table
      ]_vars

\* C4 as amended: an update changes nothing but the completed field and the
\* updated_at time of the live todo with the requested uuid: whatever the body,
\* no row is added or removed, every row keeps its id, created_at, uuid, title,
\* description, file_path and deletion mark, the updated_at of the target
\* becomes the clock reading the request took, rows of another uuid and deleted rows are
\* unchanged, and a refused update and the re-read write nothing; after the
\* UPDATE statement ran on an existing todo, a get by that uuid answers 200
\* with the completed value that was sent (false when the body has none).
C4_UpdateChangesCompletedAndUpdatedAt ==
    [][ /\ pending' # pending =>
              \A p \in BagToSet(pending) :
                  updateTodoWrite(p, FALSE) =>
                      /\ Cardinality(table') = Cardinality(table)
                      /\ \A r \in table :
                            \E q \in table' :
                                /\ SameButCompletedAndUpdatedAt(r, q)
                                /\ (r.uuid # p.uuid \/ r.deleted) => q = r
                                /\ (r.uuid = p.uuid /\ ~r.deleted) => q.updated_at = p.t
                      /\ Matching(table, p.uuid) # {} =>
                            /\ GetTodoResponse(table', p.uuid, FALSE).status = 200
                            /\ GetTodoResponse(table', p.uuid, FALSE).todo.completed
                                   = Field(p.body, "completed", FALSE)
        /\ (UpdateAnswered \/ \E u \in UUIDs, b \in UpdateBodies : updateTodo(u, b))
              => table' = table
      ]_vars

\* an update of a todo is between its UPDATE statement and its re-read, the
\* todo's updated_at is no longer its created_at; another todo is in the table
C4_Witness ==
    /\ pending = One(Reading(<<1>>))
    /\ Cardinality(table) = 2
    /\ \E r \in Live(table) : /\ r.uuid = <<1>> /\ r.completed
                              /\ r.title = "Buy milk"
                              /\ r.created_at # r.updated_at
    /\ \E r \in table : r.uuid = <<2>> /\ ~r.completed

\* C5: once a delete by uuid has removed a todo and answered 204, no live row
\* has that uuid again, whatever is created, updated or deleted afterwards,
\* and a get by that uuid answers 404: the one just answered, and the one that
\* would be answered now.
C5_DeletedStaysNotFound ==
    \A u \in gone :
        /\ Matching(table, u) = {}
        /\ \A e \in BOOLEAN : GetTodoResponse(table, u, e).status = 404
        /\ (resp.op = "get" /\ resp.uuid = u) => resp.status = 404

C5_Witness ==
    /\ resp.op = "get" /\ resp.status = 404 /\ resp.uuid \in gone
    /\ \E r \in table : r.deleted /\ r.uuid = resp.uuid
    /\ Live(table) # {}

\* C6: every non-deleted todo has a non-empty uuid, no two non-deleted todos
\* share a uuid, and the stored uuid is a generated one, never the uuid the
\* client put in the create body.
C6_UuidNonEmptyAndUnique ==
    /\ \A r \in Live(table) :
          /\ r.uuid # EmptyString
          /\ r.uuid # ClientUUID
    /\ \A r, q \in Live(table) : r # q => r.uuid # q.uuid
    /\ (resp.op = "create" /\ resp.status = 201) =>
          resp.todo.uuid # EmptyString /\ resp.todo.uuid # ClientUUID

C6_Witness ==
    /\ Cardinality(Live(table)) = 2
    /\ resp.op = "create" /\ resp.status = 201 /\ resp.todo \in Live(table)

\* C9: every 200 response of update carries the post-update row of the
\* requested uuid: the returned Todo is a row that is in the store and its uuid
\* is the uuid of the request path. (The claim adds that its completed is the
\* value sent; the two parts stated here are those that fail.)
C9_UpdateReturnsPostUpdateRow ==
    [][ (UpdateAnswered /\ resp'.status = 200) =>
            /\ resp'.todo \in Live(table')
            /\ resp'.todo.uuid = resp'.uuid
      ]_vars

(***************************************************************************)
(* Files: claims                                                           *)
(***************************************************************************)
InList(name, json) ==
    json.kind = "array" /\ \E i \in 1..Len(json.items) : json.items[i] = name

\* what a download of the name, served at once and alone, sends
Downloaded(name) ==
    IF name \in DOMAIN dir /\ ~dir[name].isDir
    THEN [status |-> 200, data |-> inodes[dir[name].ino]]
    ELSE IF name \in DOMAIN dir THEN [status |-> 200, data |-> <<>>]
    ELSE [status |-> 404, data |-> <<>>]

\* C7: file round trip. After an upload answered 201, and as long as no delete
\* of the stored name is answered 200, the stored name (the last element of the
\* returned path: a clock reading, "-" and the base of the client's name) is in
\* the file list and a download of it returns exactly the uploaded bytes;
\* after a delete answered 200 the name is not in the file list.
C7_FileRoundTrip ==
    /\ (fresp.op = "upload" /\ fresp.status = 201) =>
          LET name == Base(fresp.file_path)
          IN /\ \E t \in 1..now : name = Itoa(t) \o <<"-">> \o Base(fresp.name)
             /\ name \notin removed =>
                   /\ InList(name, ListFilesResponse(dir, FALSE).names)
                   /\ Downloaded(name).status = 200
                   /\ Downloaded(name).data = fresp.sent
    /\ (fresp.op = "delete" /\ fresp.status = 200) =>
          /\ ~InList(fresp.name, ListFilesResponse(dir, FALSE).names)
          /\ Downloaded(fresp.name).status = 404

HoldsNoFiles(d) == \A n \in DOMAIN d : d[n].isDir

\* C8: GET /files/list on an upload directory that holds no files (empty, or
\* holding only sub-directories) answers 200 with an empty array.
C8_EmptyListIsEmptyArray ==
    [][ (listFiles(FALSE) /\ HoldsNoFiles(dir)) =>
            /\ fresp'.status = 200
            /\ fresp'.names = [kind |-> "array", items |-> <<>>]
      ]_vars

\* C10: two uploads never collide by name: the names under which the uploads
\* created their files are pairwise different, so no upload creates or
\* truncates the file written by another upload.
C10_UploadNamesNeverCollide ==
    \A i, j \in 1..Len(uploaded) : i # j => uploaded[i] # uploaded[j]
====
